---- MODULE Spec2Model ----
(***************************************************************************)
(* Model of Using-ContextAPI-HOC: a ContextProvider class component that   *)
(* holds state and broadcasts it through AppContext.Provider, the          *)
(* withContext higher order component that injects the broadcast value     *)
(* into a wrapped component's props, and the SomeComponent display         *)
(* component.  The repository carries two listings of the provider         *)
(* (src/ContextAPI/ContextProvider.js and the README's Step 2) and two     *)
(* listings of SomeComponent; `build` says which pair is running.          *)
(***************************************************************************)
EXTENDS Integers, Sequences, FiniteSets, TLC

\* ------------------------------------------------------------------ bounds
NumSlots == 2
MaxActivations == 3
MaxAttempts == 2

Slots == 1..NumSlots

\* ------------------------------------------------------- JavaScript values
\* Every value has the same shape, so that any two values can be compared.
Num(n) == [t |-> "number", n |-> n, s |-> ""]
Str(s) == [t |-> "string", n |-> 0, s |-> s]
Fn(name) == [t |-> "function", n |-> 0, s |-> name]
Ref(id) == [t |-> "object", n |-> id, s |-> ""]
Undefined == [t |-> "undefined", n |-> 0, s |-> ""]

\* An object is a function from its own keys to values.
EmptyObject == [k \in {} |-> Undefined]

\* obj[k] in JavaScript: undefined when the key is absent.
Get(obj, k) == IF k \in DOMAIN obj THEN obj[k] ELSE Undefined

\* {...a, ...b} / Object.assign({}, a, b): shallow merge, b wins.
Assign(a, b) ==
    [k \in DOMAIN a \cup DOMAIN b |-> IF k \in DOMAIN b THEN b[k] ELSE a[k]]

\* The object a value refers to; property reads on a primitive find nothing.
Deref(h, v) == IF v.t = "object" THEN h[v.n] ELSE EmptyObject

\* ------------------------------------------------------------------ builds
ProviderSrc == "ContextProvider.js"
ProviderReadme == "README.md"
ComponentSrc == "SomeComponent.js"
ComponentEarlier == "SomeComponent (earlier listing)"

\* The repository as checked in, the README's walkthrough, and the earlier
\* article's walkthrough.
Builds ==
    { [provider |-> ProviderSrc, component |-> ComponentSrc],
      [provider |-> ProviderReadme, component |-> ComponentSrc],
      [provider |-> ProviderSrc, component |-> ComponentEarlier] }

VARIABLES
    build,        \* which listings are running
    heap,         \* the objects allocated so far, by id
    stateRef,     \* id of ContextProvider's this.state
    value,        \* id of the object given to AppContext.Provider's value prop
    pending,      \* setState updates enqueued and not yet processed
    phase,        \* "idle", or "render" while a render pass visits consumers
    dirty,        \* consumers the current render pass still has to render
    place,        \* per slot: "inside" or "outside" the ContextProvider
    props,        \* per slot: the props the parent passes to the wrapped component
    received,     \* per slot: the props the inner component got at its last render
    out,          \* per slot: what the inner component rendered last
    attempts,     \* per slot: renders attempted outside any provider
    activations,  \* button activations so far
    invocations,  \* update operations invoked so far
    applied       \* updates processed into this.state so far

vars == << build, heap, stateRef, value, pending, phase, dirty, place, props,
           received, out, attempts, activations, invocations, applied >>

\* ------------------------------------------------------- ContextProvider
\* A slip: the context is created with a default value.
AppContextDefaultGiven == Str("default")

\* React.createContext(): no default value.
AppContextDefault == Undefined

\* The heap right after the provider is constructed, and the id of this.state.
InitialHeap(b) ==
    IF b.provider = ProviderSrc
    THEN << [updateKey1 |-> Fn("updateKey1")],
            [contextKey1 |-> Str("contextValue1"),
             contextKey2 |-> Str("contextValue2"),
             methods |-> Ref(1)] >>
    ELSE << [counter |-> Num(0), message |-> Str("Hello, world!")] >>

InitialStateRef(b) == IF b.provider = ProviderSrc THEN 2 ELSE 1

\* An enqueued setState: an object to merge, or an updater run on the previous state.
ObjectUpdate(partial) == [kind |-> "object", partial |-> partial, fn |-> ""]
FunctionUpdate(name) == [kind |-> "function", partial |-> EmptyObject, fn |-> name]

\* A slip: the update also overwrites the neighbouring key.
updateKey1Clobber(st) ==
    ObjectUpdate([contextKey1 |-> Str("newValue"), contextKey2 |-> Str("newValue")])

\* A slip: the update flips the key back when it already has the new value.
updateKey1Toggle(st) ==
    ObjectUpdate([contextKey1 |-> IF st.contextKey1 = Str("newValue")
                                  THEN Str("contextValue1") ELSE Str("newValue")])

\* updateKey1: () => { this.setState({ contextKey1: 'newValue' }) }
updateKey1(st) == ObjectUpdate([contextKey1 |-> Str("newValue")])

\* A slip: the new counter is computed from this.state at call time, not from
\* the previous state at processing time.
incrementCounterFromThisState(st) ==
    ObjectUpdate([counter |-> Num(st.counter.n + 1)])

\* incrementCounter = () => { this.setState(prevState => ({counter: prevState.counter + 1})) }
incrementCounter(st) == FunctionUpdate("incrementCounter")

\* The update an operation enqueues when called while this.state is st.
Invoke(name, st) ==
    IF name = "updateKey1" THEN updateKey1(st) ELSE incrementCounter(st)

\* prevState => { return {counter: prevState.counter + 1} }
Updater(name, prevState) == [counter |-> Num(prevState.counter.n + 1)]

\* A slip: the state object is written in place instead of being replaced.
ApplyUpdateInPlace(h, sid, u) ==
    LET partial == IF u.kind = "function" THEN Updater(u.fn, h[sid]) ELSE u.partial
    IN  [heap |-> [h EXCEPT ![sid] = Assign(h[sid], partial)], ref |-> sid]

\* setState processing one update: a new state object, the previous one merged
\* with the partial state.
ApplyUpdate(h, sid, u) ==
    LET partial == IF u.kind = "function" THEN Updater(u.fn, h[sid]) ELSE u.partial
    IN  [heap |-> Append(h, Assign(h[sid], partial)), ref |-> Len(h) + 1]

RECURSIVE ProcessUpdateQueue(_, _, _)
ProcessUpdateQueue(h, sid, q) ==
    IF q = << >> THEN [heap |-> h, ref |-> sid]
    ELSE LET r == ApplyUpdate(h, sid, Head(q))
         IN  ProcessUpdateQueue(r.heap, r.ref, Tail(q))

\* A slip: render() hands the provider the object built at construction.
ProviderRenderInitial(b, h, sid) ==
    IF Len(h) = Len(InitialHeap(b))
    THEN IF b.provider = ProviderSrc
         THEN [heap |-> h, value |-> sid]
         ELSE [heap |-> Append(h, Assign(h[sid], [incrementCounter |-> Fn("incrementCounter")])),
               value |-> Len(h) + 1]
    ELSE [heap |-> h, value |-> Len(InitialHeap(b)) + (IF b.provider = ProviderSrc THEN 0 ELSE 1)]

\* render(): the object handed to AppContext.Provider as value.
ProviderRender(b, h, sid) ==
    IF b.provider = ProviderSrc
    THEN [heap |-> h, value |-> sid]
    ELSE [heap |-> Append(h, Assign(h[sid], [incrementCounter |-> Fn("incrementCounter")])),
          value |-> Len(h) + 1]

\* ------------------------------------------------------------ withContext
\* A slip: the spread of the original props is forgotten.
contextComponentNoSpread(p, context) == [context |-> context]

\* <Component {...props} context={context} />
contextComponent(p, context) == Assign(p, [context |-> context])

\* ---------------------------------------------------------- SomeComponent
NotRendered == [status |-> "none", line1 |-> Undefined, line2 |-> Undefined,
                onClick |-> Undefined]
TypeError == [status |-> "TypeError", line1 |-> Undefined, line2 |-> Undefined,
              onClick |-> Undefined]

\* The keys each listing reads directly from props.context.
KeysRead(c) ==
    IF c = ComponentSrc THEN {"counter", "message", "incrementCounter"}
    ELSE {"contextKey1", "contextKey2", "methods"}

\* SomeComponent(props): reading a property of undefined throws.
SomeComponent(c, p, h) ==
    LET ctx == Get(p, "context")
        obj == Deref(h, ctx)
    IN  IF ctx.t = "undefined" THEN TypeError
        ELSE IF c = ComponentSrc
        THEN [status |-> "ok",
              line1 |-> Get(obj, "counter"),
              line2 |-> Get(obj, "message"),
              onClick |-> Get(obj, "incrementCounter")]
        ELSE IF Get(obj, "methods").t = "undefined" THEN TypeError
        ELSE [status |-> "ok",
              line1 |-> Get(obj, "contextKey1"),
              line2 |-> Get(obj, "contextKey2"),
              onClick |-> Get(Deref(h, Get(obj, "methods")), "updateKey1")]

\* ------------------------------------------------------------------- Init
PropsChoices ==
    { EmptyObject,
      [title |-> Str("t")],
      [title |-> Str("t"), context |-> Str("own")] }

Init ==
    /\ build \in Builds
    /\ LET r == ProviderRender(build, InitialHeap(build), InitialStateRef(build))
       IN  /\ heap = r.heap
           /\ value = r.value
    /\ stateRef = InitialStateRef(build)
    /\ pending = << >>
    /\ place \in [Slots -> {"inside", "outside"}]
    /\ props \in [Slots -> PropsChoices]
    /\ dirty = {i \in Slots : place[i] = "inside"}
    /\ phase = IF dirty = {} THEN "idle" ELSE "render"
    /\ received = [i \in Slots |-> EmptyObject]
    /\ out = [i \in Slots |-> NotRendered]
    /\ attempts = [i \in Slots |-> 0]
    /\ activations = 0
    /\ invocations = 0
    /\ applied = 0

\* ---------------------------------------------------------------- actions
\* A slip: the component writes to the injected context while rendering.
RenderConsumerWriting(i) ==
    /\ phase = "render"
    /\ i \in dirty
    /\ received' = [received EXCEPT ![i] = contextComponent(props[i], Ref(value))]
    /\ out' = [out EXCEPT ![i] = SomeComponent(build.component, received'[i], heap)]
    /\ heap' = [heap EXCEPT ![value] = Assign(@, [rendered |-> Str("yes")])]
    /\ dirty' = dirty \ {i}
    /\ phase' = IF dirty' = {} THEN "idle" ELSE "render"
    /\ UNCHANGED << build, stateRef, value, pending, place, props,
                    attempts, activations, invocations, applied >>

\* A consumer beneath the provider renders during a render pass.
RenderConsumer(i) ==
    /\ phase = "render"
    /\ i \in dirty
    /\ received' = [received EXCEPT ![i] = contextComponent(props[i], Ref(value))]
    /\ out' = [out EXCEPT ![i] = SomeComponent(build.component, received'[i], heap)]
    /\ dirty' = dirty \ {i}
    /\ phase' = IF dirty' = {} THEN "idle" ELSE "render"
    /\ UNCHANGED << build, heap, stateRef, value, pending, place, props,
                    attempts, activations, invocations, applied >>

\* A wrapped component renders with no enclosing provider: the consumer gets the
\* context's default value.
RenderOutside(i) ==
    /\ place[i] = "outside"
    /\ attempts[i] < MaxAttempts
    /\ attempts' = [attempts EXCEPT ![i] = @ + 1]
    /\ received' = [received EXCEPT ![i] = contextComponent(props[i], AppContextDefault)]
    /\ out' = [out EXCEPT ![i] = SomeComponent(build.component, received'[i], heap)]
    /\ UNCHANGED << build, heap, stateRef, value, pending, phase, dirty, place,
                    props, activations, invocations, applied >>

\* The user activates the button: React calls the onClick the component rendered,
\* if it is a function.
Click(i) ==
    /\ phase = "idle"
    /\ out[i].status = "ok"
    /\ activations < MaxActivations
    /\ activations' = activations + 1
    /\ IF out[i].onClick.t = "function"
       THEN /\ pending' = Append(pending, Invoke(out[i].onClick.s, heap[stateRef]))
            /\ invocations' = invocations + 1
       ELSE UNCHANGED << pending, invocations >>
    /\ UNCHANGED << build, heap, stateRef, value, phase, dirty, place, props,
                    received, out, attempts, applied >>

\* React processes the update queue, calls the provider's render and starts a
\* render pass over the consumers if the provider's value is another object.
Flush ==
    /\ phase = "idle"
    /\ pending # << >>
    /\ LET u == ProcessUpdateQueue(heap, stateRef, pending)
           r == ProviderRender(build, u.heap, u.ref)
       IN  /\ heap' = r.heap
           /\ stateRef' = u.ref
           /\ value' = r.value
           /\ dirty' = IF r.value # value
                       THEN {i \in Slots : place[i] = "inside"} ELSE {}
    /\ phase' = IF dirty' = {} THEN "idle" ELSE "render"
    /\ applied' = applied + Len(pending)
    /\ pending' = << >>
    /\ UNCHANGED << build, place, props, received, out, attempts, activations,
                    invocations >>

Next ==
    \/ \E i \in Slots : RenderConsumer(i)
    \/ \E i \in Slots : RenderOutside(i)
    \/ \E i \in Slots : Click(i)
    \/ Flush

Spec == Init /\ [][Next]_vars

\* React's scheduler always finishes the work it has: the queue is processed and
\* every consumer of the pass is rendered.
LiveInit == Init /\ props = [i \in Slots |-> [title |-> Str("t")]]

LiveSpec ==
    LiveInit /\ [][Next]_vars /\ WF_vars(Flush) /\ \A i \in Slots : WF_vars(RenderConsumer(i))

\* ================================================================= claims
ReadmeProvider == build.provider = ProviderReadme
IsFlushStep == pending # << >> /\ pending' = << >>
InsideSlots == {i \in Slots : place[i] = "inside"}

\* The field an update operation of the running provider is meant to change,
\* and the value it is meant to get, given the snapshot before.
TargetKey == IF ReadmeProvider THEN "counter" ELSE "contextKey1"
ExpectedValue(prev) ==
    IF ReadmeProvider THEN Num(prev.counter.n + 1) ELSE Str("newValue")

\* next is prev with only the target field changed, to its expected value.
OnlyTargetChanged(prev, next) ==
    /\ DOMAIN next = DOMAIN prev
    /\ \A k \in DOMAIN prev :
         next[k] = IF k = TargetKey THEN ExpectedValue(prev) ELSE prev[k]

\* The state objects a flush of n updates creates, in order; 0 is the state before.
StateAfter(j) == IF j = 0 THEN heap[stateRef] ELSE heap'[Len(heap) + j]

\* C1: every processed invocation of an update operation yields exactly one new
\* state snapshot, equal to the one before except that the target field has its
\* expected value; the broadcast value likewise keeps every other field, the
\* update operations included, and one invocation yields one new broadcast.
C1_UpdateChangesOnlyTarget ==
    [][IsFlushStep =>
        LET n == Len(pending)
        IN  /\ stateRef' = Len(heap) + n
            /\ Len(heap') = Len(heap) + n + (IF ReadmeProvider THEN 1 ELSE 0)
            /\ \A j \in 1..n : OnlyTargetChanged(StateAfter(j - 1), StateAfter(j))
            /\ DOMAIN heap'[value'] = DOMAIN heap[value]
            /\ \A k \in DOMAIN heap[value] :
                 heap'[value'][k] = IF k = TargetKey THEN heap'[stateRef'][k]
                                    ELSE heap[value][k]
            /\ heap'[value'][TargetKey] = StateAfter(n)[TargetKey]
            /\ n = 1 => /\ value' \notin DOMAIN heap
                        /\ OnlyTargetChanged(heap[value], heap'[value'])]_vars

\* The README's example: from {counter: 0, message: "Hello, world!"} one
\* increment has produced {counter: 1, message: "Hello, world!"}.
C1_Witness ==
    /\ ReadmeProvider
    /\ applied = 1
    /\ heap[value].counter = Num(1)
    /\ heap[value].message = Str("Hello, world!")
    /\ heap[value].incrementCounter = Fn("incrementCounter")

\* C6: increment is not idempotent: after n processed invocations from counter 0
\* the counter is n, however the invocations were batched, and once the queue is
\* empty the counter equals the number of invocations.
C6_IncrementAddsUp ==
    ReadmeProvider =>
        /\ heap[stateRef].counter = Num(applied)
        /\ heap[value].counter = Num(applied)
        /\ pending = << >> => heap[stateRef].counter = Num(invocations)

\* Two invocations were queued and processed in one batch (two state objects and
\* one broadcast object were added to the initial two) and the counter is 2.
C6_Witness ==
    /\ ReadmeProvider
    /\ applied = 2
    /\ Len(heap) = 5
    /\ heap[value].counter = Num(2)

\* A subscriber's last render shows the provider's current state: the snapshot
\* it received agrees with this.state on every field of the state.
ShowsCurrentState(i) ==
    /\ out[i].status # "none"
    /\ \A k \in DOMAIN heap[stateRef] :
         Get(Deref(heap, Get(received[i], "context")), k) = heap[stateRef][k]

\* C2: under fair scheduling of the queue processing and of the consumers'
\* re-render, whenever an update operation has been called and is still to be
\* processed, eventually every queued update is processed and every component
\* mounted beneath the provider has rendered with a snapshot that holds the
\* resulting state; no subscriber stays on an older snapshot.
C2_UpdateReachesSubscribers ==
    (pending # << >>) ~>
        (/\ applied = invocations
         /\ \A i \in InsideSlots : ShowsCurrentState(i))

\* An update was processed and a mounted subscriber has rendered its snapshot.
C2_Witness ==
    /\ applied >= 1
    /\ phase = "idle"
    /\ InsideSlots # {}
    /\ \A i \in InsideSlots :
         /\ ShowsCurrentState(i)
         /\ Get(received[i], "context") = Ref(value)
         /\ value # InitialStateRef(build)

\* A slot beneath the provider whose last render is of the current broadcast.
RenderedCurrent(i) == place[i] = "inside" /\ i \notin dirty

\* C3 as stated: the inner component gets every input of p unchanged, plus the
\* snapshot under one additional field `context`, whatever p is.
C3_AsStated ==
    \A i \in Slots : RenderedCurrent(i) =>
        /\ \A k \in DOMAIN props[i] : received[i][k] = props[i][k]
        /\ received[i].context = Ref(value)
        /\ Cardinality(DOMAIN received[i]) = Cardinality(DOMAIN props[i]) + 1

\* C3 amended: the inner component gets every input of p other than `context`
\* unchanged and the current snapshot under `context`, which replaces a `context`
\* input of p; it gets no other field.
C3_ForwardsOtherProps ==
    \A i \in Slots : RenderedCurrent(i) =>
        /\ DOMAIN received[i] = DOMAIN props[i] \cup {"context"}
        /\ \A k \in DOMAIN props[i] \ {"context"} : received[i][k] = props[i][k]
        /\ received[i].context = Ref(value)

\* A component whose props carry their own `context` and a title has rendered
\* after an update: the title is forwarded and `context` is the snapshot.
C3_Witness ==
    \E i \in Slots :
        /\ RenderedCurrent(i)
        /\ applied >= 1
        /\ props[i] = [title |-> Str("t"), context |-> Str("own")]
        /\ received[i] = [title |-> Str("t"), context |-> Ref(value)]

\* C4: every key the display component reads from its injected snapshot is a
\* top-level key of the snapshot the provider broadcasts.
C4_KeysReadArePresent ==
    \A k \in KeysRead(build.component) : k \in DOMAIN heap[value]

\* C5: a mounted SomeComponent that has rendered the current broadcast shows that
\* snapshot's counter and message, and neither is absent.
C5_ShowsCounterAndMessage ==
    \A i \in Slots : (build.component = ComponentSrc /\ RenderedCurrent(i)) =>
        /\ out[i].status = "ok"
        /\ out[i].line1.t = "number"
        /\ out[i].line2.t = "string"
        /\ out[i].line1 = Get(heap[value], "counter")
        /\ out[i].line2 = Get(heap[value], "message")

\* C7: every render of a wrapped component with no enclosing provider receives
\* an undefined context and ends in the TypeError; it never renders anything.
C7_OutsideAlwaysFaults ==
    \A i \in Slots : place[i] = "outside" =>
        /\ out[i].status # "ok"
        /\ attempts[i] > 0 =>
             /\ received[i].context = Undefined
             /\ out[i] = TypeError

\* A component outside any provider was rendered twice and faulted.
C7_Witness ==
    \E i \in Slots :
        /\ place[i] = "outside"
        /\ attempts[i] = 2
        /\ out[i].status = "TypeError"

\* C8: every activation of SomeComponent's button invokes an update operation.
C8_ActivationInvokesUpdate == activations = invocations

\* C9: the state and the broadcast snapshot change only in the step that
\* processes queued updates; renders and reads leave every object as it is, and
\* subscribers that hold the same snapshot have read the same values from it.
C9_OnlyUpdatesChangeSnapshot ==
    [][/\ (heap'[stateRef'] # heap[stateRef] \/ heap'[value'] # heap[value]
           \/ stateRef' # stateRef \/ value' # value) => IsFlushStep
       /\ ~IsFlushStep => /\ Len(heap') = Len(heap)
                          /\ \A o \in DOMAIN heap : heap'[o] = heap[o]
       /\ \A i, j \in InsideSlots :
            (/\ out'[i].status = "ok" /\ out'[j].status = "ok"
             /\ received'[i].context = received'[j].context)
                => (/\ out'[i] = out'[j]
                    /\ out'[i] = SomeComponent(build.component, received'[i], heap'))]_vars

\* Two subscribers have both read the snapshot broadcast after an update.
C9_Witness ==
    /\ applied >= 1
    /\ phase = "idle"
    /\ Cardinality(InsideSlots) >= 2
    /\ \A i \in InsideSlots : out[i].status = "ok" /\ received[i].context = Ref(value)

\* C10: no step changes an object that exists: the snapshot a subscriber
\* retained reads as it did, and processing updates broadcasts an object that
\* did not exist before.
C10_SnapshotsAreImmutable ==
    [][/\ \A o \in DOMAIN heap : o \in DOMAIN heap' /\ heap'[o] = heap[o]
       /\ IsFlushStep => /\ value' \notin DOMAIN heap
                         /\ stateRef' \notin DOMAIN heap
                         /\ value' # value]_vars

\* After an update a subscriber still holds the snapshot it got before; that
\* object has the old field value and the broadcast one has the new value.
C10_Witness ==
    \E i \in Slots :
        /\ i \in dirty
        /\ applied >= 1
        /\ out[i].status = "ok"
        /\ received[i].context # Ref(value)
        /\ Deref(heap, received[i].context)[TargetKey] # heap[value][TargetKey]
        /\ Deref(heap, received[i].context)[TargetKey] = InitialHeap(build)[InitialStateRef(build)][TargetKey]

\* The state objects of ContextProvider.js: the initial one and one per
\* processed update.
SrcStateObjects == InitialStateRef(build)..Len(heap)

\* Every state object of ContextProvider.js has contextKey1 either initial or
\* new, contextKey2 and methods as constructed, and all state objects made by
\* updates hold the same field values.
SrcFieldsStable ==
    /\ \A o \in SrcStateObjects :
         /\ heap[o].contextKey1 \in {Str("contextValue1"), Str("newValue")}
         /\ heap[o].contextKey2 = Str("contextValue2")
         /\ heap[o].methods = Ref(1)
    /\ \A o \in SrcStateObjects \ {InitialStateRef(build)} :
         heap[o] = heap[InitialStateRef(build) + 1]

\* C11 as stated: contextKey1 is 'contextValue1' or 'newValue', contextKey2 is
\* 'contextValue2', further invocations change no field value, and from the
\* invocation of updateKey1 on contextKey1 is 'newValue'.
C11_AsStated ==
    ~ReadmeProvider =>
        /\ SrcFieldsStable
        /\ invocations >= 1 => /\ heap[stateRef].contextKey1 = Str("newValue")
                               /\ heap[value].contextKey1 = Str("newValue")

\* C11 amended: as stated, but contextKey1 is 'newValue' from the moment an
\* invocation of updateKey1 has been processed by setState; between the call
\* and that processing this.state still holds the old value.
C11_UpdateKey1OneWay ==
    ~ReadmeProvider =>
        /\ SrcFieldsStable
        /\ applied >= 1 => /\ heap[stateRef].contextKey1 = Str("newValue")
                           /\ heap[value].contextKey1 = Str("newValue")
        /\ applied = 0 => heap[stateRef].contextKey1 = Str("contextValue1")

\* updateKey1 was invoked and processed twice: the second
\* state object made by an update has the field values of the first.
C11_Witness ==
    /\ ~ReadmeProvider
    /\ applied >= 2
    /\ pending = << >>
    /\ stateRef >= InitialStateRef(build) + 2
    /\ heap[stateRef] = heap[InitialStateRef(build) + 1]
    /\ heap[stateRef].contextKey1 = Str("newValue")
    /\ heap[stateRef].contextKey2 = Str("contextValue2")

====
